---- MODULE Spec2Model ----
\* Verification model of mnist_uncertainty.py: Bayesian uncertainty in MNIST
\* classification (dataset partition, minibatch training with momentum,
\* Monte-Carlo scoring of every test image, threshold sweeps).
\*
\* Conventions
\*   * An image (784 pixels) is abstracted to one natural number standing for
\*     its content; arrays are sequences, so position j of a numpy array is
\*     position j+1 here.  Values the code keeps 0-based (indices, start_idx,
\*     i) stay 0-based.
\*   * A statistic (probability, std, entropy) and a threshold is an integer v
\*     standing for the real v / ValueUnit.
\*   * An accuracy is an IEEE-754 double, held as a pair <<r, d>> (see the
\*     Threshold Sweeper), or NaN.
\*   * A parameter, velocity or gradient is an integer p standing for
\*     p / ParamUnit (exact decimal arithmetic; float32 rounding is abstracted).
EXTENDS Integers, Sequences, FiniteSets, TLC

\* ---------------------------------------------------------------------
\* Experiment parameters and bounds
\* ---------------------------------------------------------------------
\* num_epochs = 150 and batch_size = 100 in the source; scaled down here.
num_epochs == 2
batch_size == 2
\* np.linspace(0, 1.0, 1000)
NumThresholds == 1000
\* largest raw train / test source of PartitionSpec
MaxRows == 2
\* largest raw train source of TrainSpec
MaxTrain == 3
\* largest full test set of EvalSpec
MaxTest == 3
\* longest per-label list of a synthetic uncertainty record of SweepSpec
MaxVals == 2
\* length of the per-label lists of the graded record of SweepSpec
HashVals == 3

Labels == 0 .. 9

Max(a, b) == IF a >= b THEN a ELSE b

RECURSIVE Gcd(_, _)
Gcd(a, b) == IF b = 0 THEN a ELSE Gcd(b, a % b)

RECURSIVE LcmUpTo(_)
LcmUpTo(n) == IF n <= 1 THEN 1 ELSE LET l == LcmUpTo(n - 1) IN (l * n) \div Gcd(l, n)

RECURSIVE Pow10(_)
Pow10(n) == IF n = 0 THEN 1 ELSE 10 * Pow10(n - 1)

\* 1.0 as a statistic / threshold: a multiple of NumThresholds - 1, so that
\* every threshold of the linspace is an integer, and of 20, so that 0.05,
\* 0.1, 0.25, 0.5, 0.9 and 0.95 are integers.
ValueUnit == 20 * (NumThresholds - 1)

\* 1.0 as an accuracy: the fraction of a list of length n (n up to the longest
\* list or minibatch of any specification), summed over labels, divided by 2.0
\* or 8.0 and then by 2.0 is an integer number of units.
AccUnit == 16 * LcmUpTo(Max(Max(Max(MaxVals, HashVals), MaxTest), batch_size))

\* 1.0 as a parameter: one decimal digit per training step plus two for the
\* learning rate, so that every update is exact.
ParamUnit == Pow10(num_epochs * (MaxTrain \div batch_size) + 2)

\* ---------------------------------------------------------------------
\* IEEE-754 doubles (the accuracies of lines 279 and 320-330)
\* ---------------------------------------------------------------------
\* The accuracies are sums and quotients of fractions c / n.  A double x is
\* held as <<r, d>>: r / AccUnit is the rational the computation would give
\* without rounding and d is the accumulated rounding error,
\*     x = r / AccUnit + d / (AccOdd * 2^FloatK),
\* so that two doubles are equal exactly when their pairs are.
RECURSIVE OddPart(_)
OddPart(n) == IF n % 2 = 0 THEN OddPart(n \div 2) ELSE n

RECURSIVE TwoExp(_)
TwoExp(n) == IF n % 2 = 0 THEN 1 + TwoExp(n \div 2) ELSE 0

RECURSIVE Pow2(_)
Pow2(n) == IF n = 0 THEN 1 ELSE 2 * Pow2(n - 1)

\* AccUnit = 2^AccTwos * AccOdd
AccOdd == OddPart(AccUnit)
AccTwos == TwoExp(AccUnit)

\* every double between 2^-5 and 8, halved up to five times, is a multiple
\* of 2^-FloatK
FloatK == 62

\* float nan, produced by the mean of an empty array
NaN == <<0 - 1, 0>>

Zero == <<0, 0>>
Half == <<AccUnit \div 2, 0>>
One == <<AccUnit, 0>>

\* 2^m modulo M, by squaring
RECURSIVE pow2mod(_, _)
pow2mod(m, M) ==
    IF m = 0 THEN 1 % M
    ELSE IF m % 2 = 0
         THEN LET h == pow2mod(m \div 2, M) IN (h * h) % M
         ELSE (2 * pow2mod(m - 1, M)) % M

\* floor(log2(r / AccUnit)) for r > 0
RECURSIVE binade_up(_, _)
binade_up(r, e) == IF r >= 2 * AccUnit * Pow2(e) THEN binade_up(r, e + 1) ELSE e

RECURSIVE binade_down(_, _)
binade_down(r, e) == IF r * Pow2(0 - e) < AccUnit THEN binade_down(r, e - 1) ELSE e

binade(r) == IF r >= AccUnit THEN binade_up(r, 0) ELSE binade_down(r, 0 - 1)

is_pow2(r, e) == IF e >= 0 THEN r = AccUnit * Pow2(e) ELSE r * Pow2(0 - e) = AccUnit

\* The double nearest to the real x = <<r, d>> >= 0, ties to the even
\* significand (the rounding of every double operation).  With e the binary
\* exponent of x, one unit in the last place is 2^(e-52), that is ulp units
\* of d; x lies t units of d above a multiple of it.
round(x) ==
    LET r == x[1]
        d == x[2]
    IN IF r = 0 THEN Zero
       ELSE IF d = 0 /\ r % AccOdd = 0 THEN x
       ELSE LET e0 == binade(r)
                e == IF is_pow2(r, e0) /\ d < 0 THEN e0 - 1 ELSE e0
                n2 == ((r % (2 * AccOdd)) * pow2mod(52 - e - AccTwos, 2 * AccOdd))
                          % (2 * AccOdd)
                sh == Pow2(FloatK - 52 + e)
                ulp == AccOdd * sh
                T == (n2 % AccOdd) * sh + d
                t == T % ulp
                even == ((n2 \div AccOdd) + (T \div ulp)) % 2 = 0
            IN IF 2 * t < ulp \/ (2 * t = ulp /\ even) THEN <<r, d - t>>
               ELSE <<r, d + ulp - t>>

\* float arithmetic with nan: nan propagates, every comparison with nan is
\* false; a division by 2.0 or 8.0 is exact
fadd(a, b) == IF a = NaN \/ b = NaN THEN NaN ELSE round(<<a[1] + b[1], a[2] + b[2]>>)
fdiv(a, n) == IF a = NaN THEN NaN ELSE <<a[1] \div n, a[2] \div n>>
fless(a, b) ==
    a # NaN /\ b # NaN /\ (a[1] < b[1] \/ (a[1] = b[1] /\ a[2] < b[2]))
fgreater(a, b) == fless(b, a)

VARIABLES
    pc,                         \* position in the script
    bayesian_approximation,     \* "dropout" | "variational" (line 40)
    version_info,               \* sys.version_info[0] of the interpreter
    iter_keys,                  \* order in which a label-keyed dictionary
                                \* of this interpreter process iterates
    raw_X_train, raw_y_train,   \* arrays returned by the loaders (lines 82-85)
    raw_X_test, raw_y_test,
    X_train, y_train,           \* in-distribution train (labels 0/1)
    X_test, y_test,             \* in-distribution test
    X_outside, y_outside,       \* out-of-distribution part of the train source
    X_test_all, y_test_all,     \* full test set
    params, velocity,           \* shared variables of the network / optimizer
    params0,                    \* history: parameter values at construction
    nonzero_grad_seen,          \* history: some gradient so far was nonzero
    epoch,                      \* epochs completed
    indices, start_idx,         \* state of iterate_minibatches
    inputs, targets,            \* current minibatch
    train_batches,              \* minibatches of the current / last epoch
    epoch_excerpts,             \* history: excerpts yielded in this epoch
    test_batches,
    i,                          \* scoring loop index
    probs, entropy,             \* outputs of test_prob / test_entropy
    scored,                     \* history: the four scalars of lines
                                \* 300-303 of every image scored so far
    stochastic_passes,          \* history: stochastic forward passes run
    deterministic_passes,       \* history: deterministic forward passes run
    in_out_acc,                 \* history: threshold -> <<in_acc, out_acc>>
    test_pred_mean, test_pred_std,
    test_entropy_bayesian, test_entropy_deterministic,
    acc,                        \* threshold -> balanced accuracy
    sorted_acc0                 \* sorted_acc[0] = <<threshold, accuracy>>

dataVars == <<raw_X_train, raw_y_train, raw_X_test, raw_y_test,
              X_train, y_train, X_test, y_test, X_outside, y_outside,
              X_test_all, y_test_all>>
modelVars == <<params, velocity, params0, nonzero_grad_seen>>
trainVars == <<epoch, indices, start_idx, inputs, targets, train_batches,
               epoch_excerpts>>
scoreVars == <<i, probs, entropy, scored, stochastic_passes,
              deterministic_passes>>
recordVars == <<test_pred_mean, test_pred_std, test_entropy_bayesian,
                test_entropy_deterministic>>
sweepVars == <<in_out_acc, acc, sorted_acc0>>
configVars == <<bayesian_approximation, version_info, iter_keys>>
vars == <<pc, configVars, dataVars, modelVars, trainVars,
          test_batches, scoreVars, recordVars, sweepVars>>

\* ---------------------------------------------------------------------
\* Dataset Partitioner (load_dataset, lines 87-99)
\* ---------------------------------------------------------------------
\* np.where(mask)[0]: the positions where the mask holds, ascending
RECURSIVE where_upto(_, _)
where_upto(mask, n) ==
    IF n = 0 THEN <<>>
    ELSE IF mask[n] THEN Append(where_upto(mask, n - 1), n)
         ELSE where_upto(mask, n - 1)

where(mask) == where_upto(mask, Len(mask))

\* a[idx] for an index array idx
take(a, idx) == [j \in 1 .. Len(idx) |-> a[idx[j]]]

\* np.logical_and(y != 0, y != 1)
outside_mask(y) == [j \in 1 .. Len(y) |-> y[j] # 0 /\ y[j] # 1]

\* np.logical_or(y == 0, y == 1)
inside_mask(y) == [j \in 1 .. Len(y) |-> y[j] = 0 \/ y[j] = 1]

\* a plausible slip: the label array of the out-of-distribution part is
\* filtered by "y != 0" alone
load_dataset_wrong_mask(Xtr, ytr, Xte, yte) ==
    [X_train |-> take(Xtr, where(inside_mask(ytr))),
     y_train |-> take(ytr, where(inside_mask(ytr))),
     X_test |-> take(Xte, where(inside_mask(yte))),
     y_test |-> take(yte, where(inside_mask(yte))),
     X_outside |-> take(Xtr, where(outside_mask(ytr))),
     y_outside |-> take(ytr, where([j \in 1 .. Len(ytr) |-> ytr[j] # 0])),
     X_test_all |-> Xte,
     y_test_all |-> yte]

load_dataset(Xtr, ytr, Xte, yte) ==
    [X_train |-> take(Xtr, where(inside_mask(ytr))),
     y_train |-> take(ytr, where(inside_mask(ytr))),
     X_test |-> take(Xte, where(inside_mask(yte))),
     y_test |-> take(yte, where(inside_mask(yte))),
     X_outside |-> take(Xtr, where(outside_mask(ytr))),
     y_outside |-> take(ytr, where(outside_mask(ytr))),
     X_test_all |-> Xte,
     y_test_all |-> yte]

\* line 156
LoadDataset ==
    /\ pc = "load"
    /\ LET d == load_dataset(raw_X_train, raw_y_train, raw_X_test, raw_y_test)
       IN /\ X_train' = d.X_train
          /\ y_train' = d.y_train
          /\ X_test' = d.X_test
          /\ y_test' = d.y_test
          /\ X_outside' = d.X_outside
          /\ y_outside' = d.y_outside
          /\ X_test_all' = d.X_test_all
          /\ y_test_all' = d.y_test_all
    /\ pc' = "epoch"
    /\ UNCHANGED <<configVars, raw_X_train, raw_y_train,
                   raw_X_test, raw_y_test, modelVars, trainVars, test_batches,
                   scoreVars, recordVars, sweepVars>>

\* ---------------------------------------------------------------------
\* Trainer (iterate_minibatches, sgd, lasagne momentum, training loop)
\* ---------------------------------------------------------------------
\* np.random.shuffle(np.arange(n)): any permutation of 0 .. n-1
Shuffles(n) ==
    {s \in [1 .. n -> 0 .. (n - 1)] :
        \A a, b \in 1 .. n : a # b => s[a] # s[b]}

\* indices[start:start + batchsize] (line 110); Python slicing clips at the end
slice(a, start, stop) ==
    [j \in 1 .. (IF Len(a) < stop THEN Max(Len(a) - start, 0) ELSE stop - start)
        |-> a[start + j]]

\* inputs[excerpt] for a 0-based index array excerpt (line 113)
fancy(a, excerpt) == [j \in 1 .. Len(excerpt) |-> a[excerpt[j] + 1]]

\* range(0, len(inputs) - batchsize + 1, batchsize) has a next element
\* (line 108)
has_next_batch(n, start) == start < n - batch_size + 1

\* the trainable parameters, one scalar for the tensors of a kind:
\* lasagne.layers.get_all_params(network, trainable=True) has the W and the b
\* of the two dense layers (line 176); line 208 lists the means and the log
\* variances of the weights and the biases
ParamNames ==
    IF bayesian_approximation = "dropout" THEN {"W", "b"}
    ELSE {"W_mu", "W_log_var", "b"}

\* gradients T.grad can return for a minibatch: 0.0 or 1.0 for the biases,
\* 0.0 or 1.0 for the weights
Grads ==
    {g \in [ParamNames -> {0, ParamUnit}] :
        \A m, n \in ParamNames \ {"b"} : g[m] = g[n]}

\* sgd (lines 116-124) with lr = 0.01 (line 240), momentum = 0.9, for one
\* parameter p, its accumulator a and its gradient g:
\*   acc_new = acc*momentum + (1.0-momentum)*g ;  p <- p - acc_new*lr
sgd(p, a, g) ==
    LET acc_new == (9 * a) \div 10 + g \div 10
    IN [acc |-> acc_new, p |-> p - acc_new \div 100]

\* a plausible slip: the velocity is taken from the stepped parameter without
\* subtracting the old one
momentum_no_subtract(p, v, g) ==
    LET x == (9 * v) \div 10 + (p - g \div 100)
    IN [acc |-> x, p |-> x]

\* lasagne.updates.momentum(loss, params, learning_rate=0.01, momentum=0.9)
\* (line 177):  x = momentum*velocity + (p - learning_rate*g) ;
\*              velocity <- x - p ;  p <- x
momentum(p, v, g) ==
    LET x == (9 * v) \div 10 + (p - g \div 100)
    IN [acc |-> x - p, p |-> x]

\* the updates of train_fn (lines 178 and 241) for one parameter
updates(p, v, g) ==
    IF bayesian_approximation = "dropout" THEN momentum(p, v, g) ELSE sgd(p, v, g)

\* line 258 and the start of iterate_minibatches (lines 104-107);
\* the assert of line 104 aborts the run when it fails
BeginEpoch ==
    /\ pc = "epoch"
    /\ epoch < num_epochs
    /\ IF Len(X_train) # Len(y_train)
       THEN /\ pc' = "crashed"
            /\ UNCHANGED <<indices, start_idx, train_batches, epoch_excerpts>>
       ELSE /\ indices' \in Shuffles(Len(X_train))
            /\ start_idx' = 0
            /\ train_batches' = 0
            /\ epoch_excerpts' = <<>>
            /\ pc' = "minibatch"
    /\ UNCHANGED <<configVars, dataVars, modelVars, epoch, inputs,
                   targets, test_batches, scoreVars, recordVars, sweepVars>>

\* one iteration of the loop of line 263: the generator yields the next
\* minibatch (lines 108-113) and train_fn evaluates the loss of the stochastic
\* prediction and applies its updates (line 265)
TrainStep ==
    /\ pc = "minibatch"
    /\ has_next_batch(Len(X_train), start_idx)
    /\ LET excerpt == slice(indices, start_idx, start_idx + batch_size)
       IN /\ inputs' = fancy(X_train, excerpt)
          /\ targets' = fancy(y_train, excerpt)
          /\ epoch_excerpts' = Append(epoch_excerpts, excerpt)
    /\ \E g \in Grads :
          /\ params' = [n \in ParamNames |-> updates(params[n], velocity[n], g[n]).p]
          /\ velocity' = [n \in ParamNames |-> updates(params[n], velocity[n], g[n]).acc]
          /\ nonzero_grad_seen' = (nonzero_grad_seen \/ \E n \in ParamNames : g[n] # 0)
    /\ train_batches' = train_batches + 1
    /\ start_idx' = start_idx + batch_size
    /\ stochastic_passes' = stochastic_passes + 1
    /\ UNCHANGED <<pc, configVars, dataVars, params0, epoch,
                   indices, test_batches, i, probs, entropy, scored,
                   deterministic_passes, recordVars, sweepVars>>

\* the generator is exhausted and its local indices are dropped; lines
\* 270-271 print the epoch's mean loss, train_err / train_batches, which
\* raises ZeroDivisionError when the epoch had no minibatch.  inputs and
\* targets stay bound to the last minibatch.
EndEpoch ==
    /\ pc = "minibatch"
    /\ ~ has_next_batch(Len(X_train), start_idx)
    /\ IF train_batches = 0
       THEN pc' = "crashed" /\ UNCHANGED epoch
       ELSE /\ epoch' = epoch + 1
            /\ pc' = IF epoch + 1 < num_epochs THEN "epoch" ELSE "test_eval"
    /\ indices' = <<>>
    /\ UNCHANGED <<configVars, dataVars, modelVars, start_idx, inputs, targets,
                   train_batches, epoch_excerpts, test_batches, scoreVars,
                   recordVars, sweepVars>>

\* ---------------------------------------------------------------------
\* Network (build_mlp and the variational MLP, lines 127-142 and 196-253)
\* ---------------------------------------------------------------------
\* probabilities of class 1 the abstracted network can output: 0.25 and 0.5
ProbLow == ValueUnit \div 4
ProbHigh == ValueUnit \div 2

\* m millionths of a nat as a statistic, rounded down to the unit: the
\* product ValueUnit * m \div 1000000, taken in two parts to stay within
\* 32 bits
nats(m) ==
    LET hi == ValueUnit * (m \div 1000)
    IN (hi \div 1000) + (((hi % 1000) * 1000 + ValueUnit * (m % 1000)) \div 1000000)

\* categorical_crossentropy(p, p) of the row (1 - p1, p1), in nats:
\*   -(0.75 ln 0.75 + 0.25 ln 0.25) = 0.562335...,  -ln 0.5 = 0.693147...
self_entropy(p1) == IF p1 = ProbLow THEN nats(562335) ELSE nats(693147)

\* One stochastic forward pass over the pseudo-batch of batch_size copies of
\* an image (prediction, deterministic=False): the class-1 probability of
\* every row.  Each call draws its own dropout masks; either no mask changes
\* the output, or the mask of the first row does.
forward_stochastic_outcomes ==
    {[r \in 1 .. batch_size |-> ProbLow],
     [r \in 1 .. batch_size |-> IF r = 1 THEN ProbHigh ELSE ProbLow]}

\* The deterministic forward pass on one image (deterministic=True): a fixed
\* function of the trained network and the image.
forward_deterministic(x) == IF x % 2 = 0 THEN ProbLow ELSE ProbHigh

\* ---------------------------------------------------------------------
\* Test evaluation (lines 273-293)
\* ---------------------------------------------------------------------
\* str(x) for x in range(0, 10), and str(y_test_all[i])
str(l) == <<"0", "1", "2", "3", "4", "5", "6", "7", "8", "9">>[l + 1]

Keys == {str(l) : l \in Labels}

\* {str(x): [] for x in range(0, 10)}  (lines 288-291)
empty_record == [k \in Keys |-> <<>>]

\* bitwise exclusive or of two naturals
RECURSIVE xor(_, _)
xor(a, b) ==
    IF a = 0 THEN b
    ELSE IF b = 0 THEN a
    ELSE 2 * xor(a \div 2, b \div 2) + ((a + b) % 2)

\* The ten keys in the order of their slots in the hash table of a
\* dictionary of CPython 2.7.  The hash of a one-character string is its
\* character code combined by exclusive or with a value that depends on the
\* hash seed of the process only; the table of ten keys has 32 slots, the
\* slot of a key is the low five bits of its hash, and the codes of '0'..'9'
\* are 48 + l: key l sits in slot (16 + l) xor c, no two keys collide, and
\* the order is the order of l xor c for the low four bits c of that value.
hash_order(c) ==
    [p \in 1 .. 10 |->
        str(CHOOSE l \in Labels :
                Cardinality({m \in Labels : xor(m, c) < xor(l, c)}) = p - 1)]

\* The orders in which "for l in record" (line 322) can meet the ten keys of
\* the dictionaries of lines 288-291: the insertion order where dictionaries
\* keep it (CPython 3.6 and later); under CPython 2.7 the order of the
\* string hashes, which is 1,0,3,2,5,4,7,6,9,8 (c = 1) when the interpreter
\* is started plainly and any of the sixteen orders under hash randomisation
\* (python -R, PYTHONHASHSEED).  The four dictionaries get the same keys in
\* the same sequence, so one process iterates them all in one order.
key_orders ==
    IF version_info = 3
    THEN {<<"0", "1", "2", "3", "4", "5", "6", "7", "8", "9">>}
    ELSE {hash_order(c) : c \in 0 .. 15}

\* number of elements of range(0, n - batchsize + 1, batchsize)
num_batches(n) == IF n < batch_size THEN 0 ELSE n \div batch_size

\* T.argmax(prediction, axis=1) of the row (1 - p1, p1): the first maximum
argmax(p1) == IF p1 > ValueUnit - p1 THEN 1 ELSE 0

\* the predictions test_fn can compute for a minibatch, as the class-1
\* probability of every row: in dropout mode the stochastic prediction of
\* line 167 (fresh masks for every row), in variational mode the
\* deterministic test_prediction of line 245
test_predictions(X) ==
    IF bayesian_approximation = "dropout"
    THEN [1 .. Len(X) -> {ProbLow, ProbHigh}]
    ELSE {[j \in 1 .. Len(X) |-> forward_deterministic(X[j])]}

\* test_acc: T.mean(T.eq(T.argmax(prediction, axis=1), target_var))
test_acc(pred, y) ==
    round(<<(Cardinality({j \in 1 .. Len(y) : argmax(pred[j]) = y[j]}) * AccUnit)
                \div Len(y), 0>>)

\* a plausible slip: the test function is compiled with the training updates,
\* so every evaluated minibatch takes a gradient step
TestEval_with_updates ==
    /\ pc = "test_eval"
    /\ test_batches' = num_batches(Len(X_test))
    /\ IF test_batches' = 0
       THEN /\ pc' = "crashed"
            /\ UNCHANGED <<recordVars, params, velocity, inputs, targets, acc>>
       ELSE /\ inputs' = slice(X_test, (test_batches' - 1) * batch_size,
                               test_batches' * batch_size)
            /\ targets' = slice(y_test, (test_batches' - 1) * batch_size,
                                test_batches' * batch_size)
            /\ \E pred \in test_predictions(inputs') :
                  acc' = test_acc(pred, targets')
            /\ test_pred_mean' = empty_record
            /\ test_pred_std' = empty_record
            /\ test_entropy_bayesian' = empty_record
            /\ test_entropy_deterministic' = empty_record
            /\ params' = [n \in ParamNames |-> updates(params[n], velocity[n], ParamUnit).p]
            /\ velocity' = [n \in ParamNames |-> updates(params[n], velocity[n], ParamUnit).acc]
            /\ pc' = IF Len(X_test_all) = 0 THEN "plot" ELSE "score"
    /\ stochastic_passes' = stochastic_passes + test_batches'
    /\ deterministic_passes' =
          deterministic_passes
             + (IF bayesian_approximation = "dropout" THEN 0 ELSE test_batches')
    /\ UNCHANGED <<configVars, dataVars, params0, nonzero_grad_seen,
                   epoch, indices, start_idx, train_batches, epoch_excerpts,
                   i, probs, entropy, scored, in_out_acc, sorted_acc0>>

\* the loop of lines 277-282 over the minibatches of the in-distribution test
\* set, in order: every iteration rebinds inputs and targets and binds acc to
\* the accuracy test_fn returns (test_fn has no updates; it evaluates the loss
\* of the stochastic prediction and, in variational mode, the deterministic
\* prediction as well); then the prints of lines 283-285 (test_err /
\* test_batches raises ZeroDivisionError when there was no minibatch) and the
\* creation of the four label-keyed dictionaries (lines 288-291)
TestEval ==
    /\ pc = "test_eval"
    /\ test_batches' = num_batches(Len(X_test))
    /\ IF test_batches' = 0
       THEN /\ pc' = "crashed"
            /\ UNCHANGED <<recordVars, inputs, targets, acc>>
       ELSE /\ inputs' = slice(X_test, (test_batches' - 1) * batch_size,
                               test_batches' * batch_size)
            /\ targets' = slice(y_test, (test_batches' - 1) * batch_size,
                                test_batches' * batch_size)
            /\ \E pred \in test_predictions(inputs') :
                  acc' = test_acc(pred, targets')
            /\ test_pred_mean' = empty_record
            /\ test_pred_std' = empty_record
            /\ test_entropy_bayesian' = empty_record
            /\ test_entropy_deterministic' = empty_record
            /\ pc' = IF Len(X_test_all) = 0 THEN "plot" ELSE "score"
    /\ stochastic_passes' = stochastic_passes + test_batches'
    /\ deterministic_passes' =
          deterministic_passes
             + (IF bayesian_approximation = "dropout" THEN 0 ELSE test_batches')
    /\ UNCHANGED <<configVars, dataVars, modelVars,
                   epoch, indices, start_idx, train_batches, epoch_excerpts,
                   i, probs, entropy, scored, in_out_acc, sorted_acc0>>

\* ---------------------------------------------------------------------
\* Predictive Sampler and Uncertainty Scorer (lines 294-303)
\* ---------------------------------------------------------------------
RECURSIVE Sum(_, _)
Sum(s, n) == IF n = 0 THEN 0 ELSE s[n] + Sum(s, n - 1)

RECURSIVE SumSq(_, _)
SumSq(s, n) == IF n = 0 THEN 0 ELSE s[n] * s[n] + SumSq(s, n - 1)

\* floor of the square root, by bisection on lo <= sqrt(n) < hi
RECURSIVE isqrt_between(_, _, _)
isqrt_between(n, lo, hi) ==
    IF hi - lo <= 1 THEN lo
    ELSE LET mid == (lo + hi) \div 2
         IN IF mid * mid <= n THEN isqrt_between(n, mid, hi)
            ELSE isqrt_between(n, lo, mid)

isqrt(n) == isqrt_between(n, 0, 2 * ValueUnit)

\* np.mean(s) of a non-empty array, rounded down to the unit
mean(s) == Sum(s, Len(s)) \div Len(s)

\* np.std(s): sqrt(mean((s - mean(s))**2)), rounded down to the unit
std(s) == isqrt(Len(s) * SumSq(s, Len(s)) - Sum(s, Len(s)) * Sum(s, Len(s))) \div Len(s)

\* test_entropy_classical(X_test_all[i][np.newaxis,:]).mean(): the entropy of
\* the deterministic prediction (line 192), or the fake 0.0 of line 253
test_entropy_classical(x) ==
    IF bayesian_approximation = "dropout" THEN self_entropy(forward_deterministic(x))
    ELSE 0

\* a plausible slip: d[k].insert(0, v), the value goes in front
append_in_front(d, k, v) == [d EXCEPT ![k] = <<v>> \o @]

\* d[k].append(v)
append(d, k, v) == [d EXCEPT ![k] = Append(@, v)]

\* one iteration of the loop of line 294: test_prob and test_entropy are two
\* compiled functions, each running its own stochastic forward pass
ScoreStep ==
    /\ pc = "score"
    /\ i < Len(X_test_all)
    /\ \E sample1 \in forward_stochastic_outcomes,
          sample2 \in forward_stochastic_outcomes :
          /\ probs' = sample1
          /\ entropy' = [r \in 1 .. batch_size |-> self_entropy(sample2[r])]
    /\ stochastic_passes' = stochastic_passes + 2
    /\ deterministic_passes' =
          deterministic_passes + (IF bayesian_approximation = "dropout" THEN 1 ELSE 0)
    /\ LET k == str(y_test_all[i + 1])
           predictive_mean == mean(probs')
           predictive_std == std(probs')
           classical_entropy == test_entropy_classical(X_test_all[i + 1])
       IN /\ test_pred_mean' = append(test_pred_mean, k, predictive_mean)
          /\ test_pred_std' = append(test_pred_std, k, predictive_std)
          /\ test_entropy_bayesian' = append(test_entropy_bayesian, k, mean(entropy'))
          /\ test_entropy_deterministic' =
                append(test_entropy_deterministic, k, classical_entropy)
          /\ scored' = Append(scored, [predictive_mean |-> predictive_mean,
                                       predictive_std |-> predictive_std,
                                       entropy |-> mean(entropy'),
                                       classical_entropy |-> classical_entropy])
    /\ i' = i + 1
    /\ pc' = IF i + 1 < Len(X_test_all) THEN "score" ELSE "plot"
    /\ UNCHANGED <<configVars, dataVars, modelVars, trainVars,
                   test_batches, sweepVars>>

\* the histograms of lines 306-313 read the record
Plot ==
    /\ pc = "plot"
    /\ pc' = "sweep_classical"
    /\ UNCHANGED <<configVars, dataVars, modelVars, trainVars,
                   test_batches, scoreVars, recordVars, sweepVars>>

\* ---------------------------------------------------------------------
\* Threshold Sweeper (lines 315-372)
\* ---------------------------------------------------------------------
\* threshold = np.linspace(0, 1.0, 1000): element k is k / 999
linspace(k) == k * (ValueUnit \div (NumThresholds - 1))

Thresholds == {linspace(k) : k \in 0 .. (NumThresholds - 1)}

count_below(s, t) == Cardinality({j \in 1 .. Len(s) : s[j] < t})

\* (np.array(s) < t).mean(): the count divided by the length, rounded once;
\* the mean of an empty array is nan
frac_below(s, t) ==
    IF Len(s) = 0 THEN NaN ELSE round(<<(count_below(s, t) * AccUnit) \div Len(s), 0>>)

\* a plausible slip: ">" for ">="
frac_above(s, t) ==
    IF Len(s) = 0 THEN NaN
    ELSE round(<<(Cardinality({j \in 1 .. Len(s) : s[j] > t}) * AccUnit) \div Len(s), 0>>)

\* (np.array(s) >= t).mean()
frac_at_least(s, t) ==
    IF Len(s) = 0 THEN NaN
    ELSE round(<<((Len(s) - count_below(s, t)) * AccUnit) \div Len(s), 0>>)

\* one iteration of "for l in record" (lines 322-326) on in_acc and on out_acc
in_step(r, l, t, a) ==
    IF l = "0" \/ l = "1" THEN fadd(a, frac_below(r[l], t)) ELSE a

out_step(r, l, t, a) ==
    IF l = "0" \/ l = "1" THEN a ELSE fadd(a, frac_at_least(r[l], t))

\* in_acc after the loop over the keys and "/= 2.0"
in_acc(r, t) ==
    LET l == iter_keys
    IN fdiv(in_step(r, l[10], t, in_step(r, l[9], t, in_step(r, l[8], t,
            in_step(r, l[7], t, in_step(r, l[6], t, in_step(r, l[5], t,
            in_step(r, l[4], t, in_step(r, l[3], t, in_step(r, l[2], t,
            in_step(r, l[1], t, Zero)))))))))), 2)

\* out_acc after the loop and "/= 8.0"
out_acc(r, t) ==
    LET l == iter_keys
    IN fdiv(out_step(r, l[10], t, out_step(r, l[9], t, out_step(r, l[8], t,
            out_step(r, l[7], t, out_step(r, l[6], t, out_step(r, l[5], t,
            out_step(r, l[4], t, out_step(r, l[3], t, out_step(r, l[2], t,
            out_step(r, l[1], t, Zero)))))))))), 8)

\* in_acc and out_acc of every iteration of the loop of line 319
in_out(r) == [t \in Thresholds |-> <<in_acc(r, t), out_acc(r, t)>>]

\* bal_acc = (in_acc + out_acc)/2.0
bal_acc(a, b) == fdiv(fadd(a, b), 2)

\* the dictionary acc after the loop over the thresholds (lines 318-330),
\* from the in_acc and out_acc of every iteration
sweep(c) == [t \in Thresholds |-> bal_acc(c[t][1], c[t][2])]

\* a plausible slip: reverse is left out, the sort is ascending
RECURSIVE sorted_head_ascending(_, _, _)
sorted_head_ascending(a, lo, hi) ==
    IF lo = hi THEN lo
    ELSE LET mid == (lo + hi) \div 2
             l == sorted_head_ascending(a, lo, mid)
             r == sorted_head_ascending(a, mid + 1, hi)
         IN IF fless(a[linspace(r)], a[linspace(l)]) THEN r ELSE l

\* Position, in sweep order, of the item that
\* sorted(items, key=operator.itemgetter(1), reverse=True) puts first when
\* the items come in sweep order.  The sort is a stable merge sort: of two
\* sorted runs the head of the left run stays in front unless the head of the
\* right run is strictly greater.  (The dictionary of a sweep holds numbers
\* only or nan only, see AccAllNumbersOrAllNaN.)
RECURSIVE sorted_head(_, _, _)
sorted_head(a, lo, hi) ==
    IF lo = hi THEN lo
    ELSE LET mid == (lo + hi) \div 2
             l == sorted_head(a, lo, mid)
             r == sorted_head(a, mid + 1, hi)
         IN IF fgreater(a[linspace(r)], a[linspace(l)]) THEN r ELSE l

\* The values sorted_acc[0] can have, as <<threshold, accuracy>>.
\* acc.items() lists the items in the order of the dictionary.  Where
\* dictionaries keep insertion order (CPython 3.6 and later) that is the
\* sweep order, and the stable sort puts the first item of the largest
\* accuracy in front.  Under Python 2 it is the order of the hashes of the
\* thresholds, which the script does not control: the item in front is the
\* one the hash order puts first among the items no item is greater than
\* (every item when all accuracies are nan).
first_sorted(a) ==
    LET k == sorted_head(a, 0, NumThresholds - 1)
    IN IF version_info = 3 THEN {<<linspace(k), a[linspace(k)]>>}
       ELSE {<<t, a[t]>> : t \in {u \in Thresholds : ~ fless(a[u], a[linspace(k)])}}

\* lines 317-333
SweepClassical ==
    /\ pc = "sweep_classical"
    /\ in_out_acc' = in_out(test_entropy_deterministic)
    /\ acc' = sweep(in_out_acc')
    /\ sorted_acc0' \in first_sorted(acc')
    /\ pc' = "sweep_bayesian"
    /\ UNCHANGED <<configVars, dataVars, modelVars, trainVars,
                   test_batches, scoreVars, recordVars>>

\* lines 336-352
SweepBayesian ==
    /\ pc = "sweep_bayesian"
    /\ in_out_acc' = in_out(test_entropy_bayesian)
    /\ acc' = sweep(in_out_acc')
    /\ sorted_acc0' \in first_sorted(acc')
    /\ pc' = "sweep_std"
    /\ UNCHANGED <<configVars, dataVars, modelVars, trainVars,
                   test_batches, scoreVars, recordVars>>

\* lines 355-372
SweepStd ==
    /\ pc = "sweep_std"
    /\ in_out_acc' = in_out(test_pred_std)
    /\ acc' = sweep(in_out_acc')
    /\ sorted_acc0' \in first_sorted(acc')
    /\ pc' = "done"
    /\ UNCHANGED <<configVars, dataVars, modelVars, trainVars,
                   test_batches, scoreVars, recordVars>>

\* ---------------------------------------------------------------------
\* Initial states
\* ---------------------------------------------------------------------
\* all sequences over S of length at most n
SeqsUpTo(S, n) == UNION {[1 .. m -> S] : m \in 0 .. n}

\* np.arange-like image contents: image j of a source has content j
images(n) == [j \in 1 .. n |-> j]

\* draws of an initial weight: lasagne.init.GlorotUniform (line 134) and
\* init (lines 145-152) draw uniformly between -sqrt(6/(n_in+n_out)) and
\* +sqrt(6/(n_in+n_out)), 0.068 for the hidden layer and 0.108 for the output
\* layer; -0.05 and 0.05 are in both ranges
InitDraws == {0 - ParamUnit \div 20, ParamUnit \div 20}

\* the values the parameters can have at construction: drawn weights (means
\* and log variances), zero biases (lines 204-205, DenseLayer's default)
InitialParams ==
    {f \in [ParamNames -> InitDraws \cup {0}] :
        \A n \in ParamNames : (f[n] = 0) <=> (n = "b")}

FreshModel ==
    /\ params \in InitialParams
    /\ velocity = [n \in ParamNames |-> 0]
    /\ params0 = params
    /\ nonzero_grad_seen = FALSE

IdleTrainer ==
    /\ epoch = 0
    /\ indices = <<>>
    /\ start_idx = 0
    /\ inputs = <<>>
    /\ targets = <<>>
    /\ train_batches = 0
    /\ epoch_excerpts = <<>>

IdleScorer ==
    /\ test_batches = 0
    /\ i = 0
    /\ probs = <<>>
    /\ entropy = <<>>
    /\ scored = <<>>
    /\ stochastic_passes = 0
    /\ deterministic_passes = 0

NoRecord ==
    /\ test_pred_mean = <<>>
    /\ test_pred_std = <<>>
    /\ test_entropy_bayesian = <<>>
    /\ test_entropy_deterministic = <<>>

NoSweep == in_out_acc = <<>> /\ acc = <<>> /\ sorted_acc0 = <<>>

\* the interpreters: 2 is CPython 2.7 (dictionaries iterate in hash order), 3
\* is CPython 3.6 or later (dictionaries iterate in insertion order)
Versions == {2, 3}

NotLoaded ==
    /\ X_train = <<>> /\ y_train = <<>>
    /\ X_test = <<>> /\ y_test = <<>>
    /\ X_outside = <<>> /\ y_outside = <<>>
    /\ X_test_all = <<>> /\ y_test_all = <<>>

Loaded ==
    LET d == load_dataset(raw_X_train, raw_y_train, raw_X_test, raw_y_test)
    IN /\ X_train = d.X_train /\ y_train = d.y_train
       /\ X_test = d.X_test /\ y_test = d.y_test
       /\ X_outside = d.X_outside /\ y_outside = d.y_outside
       /\ X_test_all = d.X_test_all /\ y_test_all = d.y_test_all

\* --- PartitionSpec: the partitioner on every small train and test source
\* (it iterates no dictionary, the interpreter is the one of insertion order)
Pixels == {0, 1}
PartitionLabels == {0, 1, 2}

PartitionInit ==
    /\ pc = "load"
    /\ bayesian_approximation = "dropout"
    /\ version_info = 3
    /\ iter_keys \in key_orders
    /\ raw_y_train \in SeqsUpTo(PartitionLabels, MaxRows)
    /\ raw_X_train \in [1 .. Len(raw_y_train) -> Pixels]
    /\ raw_y_test \in SeqsUpTo(PartitionLabels, MaxRows)
    /\ raw_X_test \in [1 .. Len(raw_y_test) -> Pixels]
    /\ NotLoaded /\ FreshModel /\ IdleTrainer /\ IdleScorer /\ NoRecord /\ NoSweep

PartitionNext == LoadDataset

PartitionSpec == PartitionInit /\ [][PartitionNext]_vars

\* --- TrainSpec: loading and the training loop, in both approximation modes,
\* on every in-distribution train source of at most MaxTrain rows (the loop
\* iterates no dictionary, the interpreter is the one of insertion order)
TrainInit ==
    /\ pc = "load"
    /\ bayesian_approximation \in {"dropout", "variational"}
    /\ version_info = 3
    /\ iter_keys \in key_orders
    /\ raw_y_train \in SeqsUpTo({0, 1}, MaxTrain)
    /\ raw_X_train = images(Len(raw_y_train))
    /\ raw_y_test = <<>>
    /\ raw_X_test = <<>>
    /\ NotLoaded /\ FreshModel /\ IdleTrainer /\ IdleScorer /\ NoRecord /\ NoSweep

TrainNext == LoadDataset \/ BeginEpoch \/ TrainStep \/ EndEpoch

TrainSpec == TrainInit /\ [][TrainNext]_vars

\* --- EvalSpec: the script from the end of the training loop on.  The train
\* source had batch_size rows, so every epoch took one step (here with
\* gradient 1.0 for every parameter, from weights drawn at 0.05); the last
\* epoch met the rows in their order.  The interpreter keeps insertion order
\* (SweepSpec has the sweeps under hash order).
RECURSIVE trained(_, _)
trained(p0, k) ==
    IF k = 0 THEN [p |-> p0, acc |-> 0]
    ELSE LET before == trained(p0, k - 1)
         IN updates(before.p, before.acc, ParamUnit)

TestLabels == {1, 7}

EvalInit ==
    /\ pc = "test_eval"
    /\ bayesian_approximation \in {"dropout", "variational"}
    /\ version_info = 3
    /\ iter_keys \in key_orders
    /\ raw_X_train = images(batch_size)
    /\ raw_y_train = [j \in 1 .. batch_size |-> j % 2]
    /\ raw_y_test \in SeqsUpTo(TestLabels, MaxTest)
    /\ raw_X_test = images(Len(raw_y_test))
    /\ Loaded
    /\ params0 = [n \in ParamNames |-> IF n = "b" THEN 0 ELSE ParamUnit \div 20]
    /\ params = [n \in ParamNames |-> trained(params0[n], num_epochs).p]
    /\ velocity = [n \in ParamNames |-> trained(params0[n], num_epochs).acc]
    /\ nonzero_grad_seen = TRUE
    /\ epoch = num_epochs
    /\ indices = <<>>
    /\ start_idx = batch_size
    /\ epoch_excerpts = <<[j \in 1 .. batch_size |-> j - 1]>>
    /\ inputs = fancy(X_train, epoch_excerpts[1])
    /\ targets = fancy(y_train, epoch_excerpts[1])
    /\ train_batches = 1
    /\ test_batches = 0
    /\ i = 0
    /\ probs = <<>>
    /\ entropy = <<>>
    /\ scored = <<>>
    /\ stochastic_passes = num_epochs
    /\ deterministic_passes = 0
    /\ NoRecord /\ NoSweep

EvalNext ==
    TestEval \/ ScoreStep \/ Plot \/ SweepClassical \/ SweepBayesian \/ SweepStd

EvalSpec == EvalInit /\ [][EvalNext]_vars

\* --- Spec: the whole script, from the start on the sources of TrainSpec, and
\* from the end of the training loop on the sources of EvalSpec
Init == TrainInit \/ EvalInit

Next ==
    \/ LoadDataset
    \/ BeginEpoch
    \/ TrainStep
    \/ EndEpoch
    \/ TestEval
    \/ ScoreStep
    \/ Plot
    \/ SweepClassical
    \/ SweepBayesian
    \/ SweepStd

Spec == Init /\ [][Next]_vars

\* --- SweepSpec: the three sweeps as functions of the record they read, on
\* synthetic records.  Lists are non-decreasing (a sweep only counts values).
Low == 0
Mid == ValueUnit \div 20
High == (19 * ValueUnit) \div 20

NonDecreasing(s) == \A j \in 1 .. (Len(s) - 1) : s[j] <= s[j + 1]

Lists(S) == {s \in SeqsUpTo(S, MaxVals) : NonDecreasing(s)}

\* label '0' holds x, label '1' holds y, the labels k with k <= last hold z and
\* the other labels hold one value of 0.95
record(x, y, z, last) ==
    [k \in Keys |->
        IF k = "0" THEN x
        ELSE IF k = "1" THEN y
        ELSE IF \E l \in 2 .. last : k = str(l) THEN z
        ELSE <<High>>]

\* the records swept under insertion order: three records of one choice of
\* lists
InsertionOrderRecords ==
    \E x \in Lists({Low, High}), y \in Lists({Mid, High}), z \in Lists({Low, High}) :
       /\ test_entropy_deterministic = record(x, y, z, 8)
       /\ test_entropy_bayesian = record(x, y, z, 2)
       /\ test_pred_std = record(x, y, z, 9)
       /\ test_pred_mean = record(x, y, z, 9)

\* a record of HashVals values per label, each 0.2, 0.5 or 0.8, in which the
\* labels outside the distribution hold different numbers of each: the
\* fractions summed by a sweep differ from label to label, and the rounded
\* sum depends on the order of the labels
grades ==
    [k \in Keys |->
        IF k = "0" THEN <<2, 5, 5>>
        ELSE IF k = "1" THEN <<2, 2, 2>>
        ELSE IF k \in {"2", "4"} THEN <<5, 8, 8>>
        ELSE IF k = "3" THEN <<5, 5, 8>>
        ELSE IF k \in {"5", "7"} THEN <<2, 5, 8>>
        ELSE IF k = "6" THEN <<2, 8, 8>>
        ELSE IF k = "8" THEN <<2, 5, 5>>
        ELSE <<2, 2, 8>>]

graded ==
    [k \in Keys |->
        [j \in 1 .. HashVals |-> grades[k][((j - 1) % 3) + 1] * (ValueUnit \div 10)]]

\* the records swept under hash order: the classical entropies are 0.95 and
\* 1.0 inside and 0.0 outside the distribution, the Bayesian entropies are
\* 1.0 inside and 0.0 outside (in both threshold 0 alone has the largest
\* accuracy), the standard deviations are 0.0 and 0.05 inside and 0.95
\* outside, or the graded record
HashOrderRecords ==
    /\ test_entropy_deterministic = record(<<High>>, <<ValueUnit>>, <<Low>>, 9)
    /\ test_entropy_bayesian = record(<<ValueUnit>>, <<ValueUnit>>, <<Low>>, 9)
    /\ test_pred_std \in {record(<<Low>>, <<Mid>>, <<High>>, 9), graded}
    /\ test_pred_mean = test_pred_std

SweepInit ==
    /\ pc = "sweep_classical"
    /\ bayesian_approximation = "dropout"
    /\ version_info \in Versions
    /\ iter_keys \in key_orders
    /\ raw_X_train = <<>> /\ raw_y_train = <<>>
    /\ raw_X_test = <<>> /\ raw_y_test = <<>>
    /\ NotLoaded /\ IdleTrainer /\ IdleScorer /\ NoSweep
    /\ params = [n \in ParamNames |-> IF n = "b" THEN 0 ELSE ParamUnit \div 20]
    /\ velocity = [n \in ParamNames |-> 0]
    /\ params0 = params
    /\ nonzero_grad_seen = FALSE
    /\ IF version_info = 3 THEN InsertionOrderRecords ELSE HashOrderRecords

SweepNext == SweepClassical \/ SweepBayesian \/ SweepStd

SweepSpec == SweepInit /\ [][SweepNext]_vars

\* ---------------------------------------------------------------------
\* Properties
\* ---------------------------------------------------------------------
\* rows of a source: image paired with label
Zip(X, y) == [j \in 1 .. Len(X) |-> <<X[j], y[j]>>]

IsInside(row) == row[2] \in {0, 1}
IsOutside(row) == row[2] \notin {0, 1}

Occurrences(s, row) == Cardinality({j \in 1 .. Len(s) : s[j] = row})

ElementsOf(s) == {s[j] : j \in 1 .. Len(s)}

SweepDone == pc \in {"sweep_bayesian", "sweep_std", "done"}

\* the record read by the sweep that has just finished
swept_record ==
    IF pc = "sweep_bayesian" THEN test_entropy_deterministic
    ELSE IF pc = "sweep_std" THEN test_entropy_bayesian
    ELSE test_pred_std

AllNonEmpty(r) == \A k \in Keys : Len(r[k]) >= 1

InValues(r) == ElementsOf(r["0"]) \cup ElementsOf(r["1"])

OutValues(r) == UNION {ElementsOf(r[k]) : k \in Keys \ {"0", "1"}}

\* every in-distribution value below 0.1, every other value above 0.9, no
\* label without a value
Separated(r) ==
    /\ AllNonEmpty(r)
    /\ \A v \in InValues(r) : 10 * v < ValueUnit
    /\ \A v \in OutValues(r) : 10 * v > 9 * ValueUnit

\* C1 as stated: on a separated record the sweep reports balanced accuracy
\* 1.0 and a threshold in [0.1, 0.9].
C1_SeparatedThresholdInMiddle ==
    (SweepDone /\ Separated(swept_record)) =>
        /\ sorted_acc0[2] = One
        /\ ValueUnit <= 10 * sorted_acc0[1]
        /\ 10 * sorted_acc0[1] <= 9 * ValueUnit

\* C1 amended: on a separated record the sweep reports balanced accuracy 1.0
\* and one of the 1000 thresholds that separates the record: it is greater
\* than every value of labels '0' and '1' and not greater than any value of
\* labels '2'..'9'.
C1_SeparatedSeparatingThreshold ==
    (SweepDone /\ Separated(swept_record)) =>
        /\ sorted_acc0[2] = One
        /\ sorted_acc0[1] \in Thresholds
        /\ acc[sorted_acc0[1]] = One
        /\ \A v \in InValues(swept_record) : v < sorted_acc0[1]
        /\ \A v \in OutValues(swept_record) : sorted_acc0[1] <= v

\* a separated record was swept and the reported threshold is below 0.1
C1_Witness ==
    /\ SweepDone
    /\ Separated(swept_record)
    /\ sorted_acc0[2] = One
    /\ 10 * sorted_acc0[1] < ValueUnit

\* C2: after a sweep, the balanced accuracy stored for every threshold is a
\* number in [0, 1], whatever the record, also when a label has no value.
C2_BalancedAccuracyInUnitInterval ==
    SweepDone =>
        \A t \in Thresholds :
            /\ acc[t] # NaN
            /\ ~ fless(acc[t], Zero)
            /\ ~ fgreater(acc[t], One)

\* C3: the reported pair is an item of the curve, no threshold has a greater
\* balanced accuracy, and every threshold before the reported one has a
\* smaller balanced accuracy (the reported one is the first that attains the
\* maximum).
C3_ReportsFirstMaximum ==
    SweepDone =>
        /\ sorted_acc0[1] \in Thresholds
        /\ sorted_acc0[2] = acc[sorted_acc0[1]]
        /\ \A t \in Thresholds : ~ fgreater(acc[t], sorted_acc0[2])
        /\ \A t \in Thresholds :
              t < sorted_acc0[1] => fless(acc[t], sorted_acc0[2])

\* the dictionary of a finished sweep holds numbers only or nan only
AccAllNumbersOrAllNaN ==
    SweepDone =>
        \/ \A t \in Thresholds : acc[t] = NaN
        \/ \A t \in Thresholds : acc[t] # NaN

\* C4: after load_dataset, in-train / out-train / in-test are the
\* order-preserving subsequences of the rows with label in {0,1} / not in
\* {0,1} / in {0,1}, full-test is the test source, images stay paired with
\* their labels, in-train and out-train share no label and together hold
\* every train row as often as the train source does.
C4_PartitionIsExact ==
    pc # "load" =>
        /\ Len(X_train) = Len(y_train)
        /\ Len(X_outside) = Len(y_outside)
        /\ Len(X_test) = Len(y_test)
        /\ Zip(X_train, y_train) = SelectSeq(Zip(raw_X_train, raw_y_train), IsInside)
        /\ Zip(X_outside, y_outside) = SelectSeq(Zip(raw_X_train, raw_y_train), IsOutside)
        /\ Zip(X_test, y_test) = SelectSeq(Zip(raw_X_test, raw_y_test), IsInside)
        /\ X_test_all = raw_X_test
        /\ y_test_all = raw_y_test
        /\ ElementsOf(y_train) \cap ElementsOf(y_outside) = {}
        /\ \A row \in Pixels \X PartitionLabels :
              /\ Occurrences(Zip(X_train, y_train), row)
                    + Occurrences(Zip(X_outside, y_outside), row)
                 = Occurrences(Zip(raw_X_train, raw_y_train), row)
              /\ Occurrences(Zip(X_test, y_test), row)
                    <= Occurrences(Zip(X_test_all, y_test_all), row)

\* a source with rows on both sides of the split was partitioned
C4_Witness ==
    /\ pc # "load"
    /\ Len(X_train) >= 1
    /\ Len(X_outside) >= 1
    /\ Len(X_test) >= 1
    /\ Len(X_test) < Len(X_test_all)

ScoringStarted == pc \in {"score", "plot", "sweep_classical", "sweep_bayesian",
                          "sweep_std", "done"}

Last(s) == s[Len(s)]

\* C5 as stated: scoring an image runs one stochastic forward pass and one
\* deterministic forward pass, and the mean, the std and the Bayesian entropy
\* appended for the image come from the one sample matrix probs.
C5_OneStochasticPassPerImage ==
    [][i' = i + 1 =>
          /\ stochastic_passes' = stochastic_passes + 1
          /\ deterministic_passes' = deterministic_passes + 1
          /\ entropy' = [r \in 1 .. batch_size |-> self_entropy(probs'[r])]
          /\ LET k == str(y_test_all[i'])
             IN /\ Last(test_pred_mean'[k]) = mean(probs')
                /\ Last(test_pred_std'[k]) = std(probs')
                /\ Last(test_entropy_bayesian'[k]) =
                      mean([r \in 1 .. batch_size |-> self_entropy(probs'[r])])]_vars

\* the 0-based indices yielded so far in the current epoch
RECURSIVE Concat(_, _)
Concat(ss, n) == IF n = 0 THEN <<>> ELSE Concat(ss, n - 1) \o ss[n]

YieldedIndices == Concat(epoch_excerpts, Len(epoch_excerpts))

\* every minibatch of the epoch holds batch_size rows, no index is yielded
\* twice, and the current minibatch holds the images and the labels found at
\* the indices of its excerpt
MinibatchesWellFormed ==
    /\ \A b \in 1 .. Len(epoch_excerpts) : Len(epoch_excerpts[b]) = batch_size
    /\ \A a, b \in 1 .. Len(YieldedIndices) :
          a # b => YieldedIndices[a] # YieldedIndices[b]
    /\ (pc = "minibatch" /\ train_batches > 0) =>
          LET excerpt == Last(epoch_excerpts)
          IN /\ Len(inputs) = batch_size
             /\ Len(targets) = batch_size
             /\ \A j \in 1 .. batch_size :
                   /\ inputs[j] = X_train[excerpt[j] + 1]
                   /\ targets[j] = y_train[excerpt[j] + 1]

\* when the generator is exhausted the epoch has taken floor(N/B) steps over
\* the first floor(N/B)*B indices of the shuffled order, in that order
EpochCoversAllButTrailingRows ==
    (pc = "minibatch" /\ ~ has_next_batch(Len(X_train), start_idx)) =>
        LET steps == Len(X_train) \div batch_size
        IN /\ train_batches = steps
           /\ YieldedIndices = SubSeq(indices, 1, steps * batch_size)
           /\ Len(X_train) - Len(YieldedIndices) = Len(X_train) % batch_size

\* the training loop has ended only after num_epochs complete epochs
TrainingRunsAllEpochs ==
    /\ pc = "crashed" => FALSE
    /\ pc = "test_eval" => epoch = num_epochs
    /\ (pc \in {"epoch", "test_eval"} /\ epoch > 0) =>
          train_batches = Len(X_train) \div batch_size

\* C6 as stated: for every train size N and batch size B the training loop
\* ends after exactly num_epochs epochs of floor(N/B) steps each, every
\* minibatch holds B rows paired by index, the trailing N mod B rows of the
\* shuffled order are skipped and no index is used twice in an epoch.
C6_TrainingRunsEveryEpoch ==
    /\ TrainingRunsAllEpochs
    /\ MinibatchesWellFormed
    /\ EpochCoversAllButTrailingRows

\* C7: as long as every gradient has been zero, every velocity is zero and
\* every parameter has its initial value.
C7_ZeroGradientKeepsParameters ==
    ~ nonzero_grad_seen =>
        /\ \A n \in ParamNames : velocity[n] = 0
        /\ params = params0

\* the whole training ran, taking steps, with zero gradients only
C7_Witness ==
    /\ pc = "test_eval"
    /\ epoch = num_epochs
    /\ train_batches > 0
    /\ ~ nonzero_grad_seen
    /\ params = params0

\* positions (1-based) of the first n test samples whose label has key k
RECURSIVE positions_of(_, _)
positions_of(k, n) ==
    IF n = 0 THEN <<>>
    ELSE IF str(y_test_all[n]) = k THEN Append(positions_of(k, n - 1), n)
         ELSE positions_of(k, n - 1)

RECURSIVE SumOfLengths(_, _)
SumOfLengths(d, l) ==
    IF l < 0 THEN 0 ELSE Len(d[str(l)]) + SumOfLengths(d, l - 1)

\* the values one of the four statistics took on the first n test samples
\* whose label has key k, in full-test order
in_test_order(k, n, field) ==
    [j \in 1 .. Len(positions_of(k, n)) |-> scored[positions_of(k, n)[j]][field]]

\* C8: once the record exists, after every iteration each of the four
\* collections of a label holds, in full-test order, the values the loop
\* computed for the scored samples of that label (so the four have the same
\* length, the number of scored samples with that label); the lengths add up
\* to the number of scored samples, which is the size of full-test once the
\* loop has ended.
C8_RecordFollowsTestSet ==
    ScoringStarted =>
        /\ Len(scored) = i
        /\ \A k \in Keys :
              /\ test_pred_mean[k] = in_test_order(k, i, "predictive_mean")
              /\ test_pred_std[k] = in_test_order(k, i, "predictive_std")
              /\ test_entropy_bayesian[k] = in_test_order(k, i, "entropy")
              /\ test_entropy_deterministic[k] = in_test_order(k, i, "classical_entropy")
              /\ Len(test_pred_mean[k]) = Len(positions_of(k, i))
              /\ Len(test_pred_std[k]) = Len(positions_of(k, i))
              /\ Len(test_entropy_bayesian[k]) = Len(positions_of(k, i))
              /\ Len(test_entropy_deterministic[k]) = Len(positions_of(k, i))
        /\ SumOfLengths(test_pred_mean, 9) = i
        /\ SumOfLengths(test_pred_std, 9) = i
        /\ SumOfLengths(test_entropy_bayesian, 9) = i
        /\ SumOfLengths(test_entropy_deterministic, 9) = i
        /\ pc # "score" => i = Len(X_test_all)

\* the loop ended on a test set with two labels, one of them seen twice with
\* a label of the other in between, and the two samples of that label differ
\* in each of the four statistics
C8_Witness ==
    /\ pc = "done"
    /\ i = Len(X_test_all)
    /\ y_test_all = <<1, 7, 1>>
    /\ Len(test_pred_mean["7"]) = 1
    /\ Len(test_pred_mean["1"]) = 2
    /\ test_pred_mean["1"][1] # test_pred_mean["1"][2]
    /\ test_pred_std["1"][1] # test_pred_std["1"][2]
    /\ test_entropy_bayesian["1"][1] # test_entropy_bayesian["1"][2]
    /\ test_entropy_deterministic["7"][1] # test_entropy_deterministic["1"][1]

\* C9: a step changes a parameter or a velocity only if it is a training step
\* (never from the end of the training loop on), and no step of the plotting
\* or of a sweep changes the uncertainty record.
C9_ParametersFrozenAfterTraining ==
    [][/\ (params' # params \/ velocity' # velocity) => pc = "minibatch"
       /\ pc \in {"plot", "sweep_classical", "sweep_bayesian", "sweep_std", "done"}
             => recordVars' = recordVars]_vars

\* the script ran to its end with trained parameters and a filled record
C9_Witness ==
    /\ pc = "done"
    /\ params # params0
    /\ i > 0
    /\ \E k \in Keys : Len(test_pred_std[k]) >= 1

NonNegative(r) == \A k \in Keys : \A v \in ElementsOf(r[k]) : v >= 0

\* C10: on a record of non-negative values with no empty label, threshold 0
\* has in-distribution accuracy 0, out-of-distribution accuracy 1 and balanced
\* accuracy 0.5, the reported accuracy is at least 0.5, and from any threshold
\* to the next the in-distribution accuracy does not decrease and the
\* out-of-distribution accuracy does not increase.
C10_BaselineAndMonotone ==
    (SweepDone /\ NonNegative(swept_record) /\ AllNonEmpty(swept_record)) =>
        /\ in_out_acc[linspace(0)] = <<Zero, One>>
        /\ acc[linspace(0)] = Half
        /\ sorted_acc0[2] # NaN
        /\ ~ fless(sorted_acc0[2], Half)
        /\ \A k \in 0 .. (NumThresholds - 2) :
              /\ in_out_acc[linspace(k)][1] # NaN
              /\ in_out_acc[linspace(k)][2] # NaN
              /\ ~ fgreater(in_out_acc[linspace(k)][1], in_out_acc[linspace(k + 1)][1])
              /\ ~ fless(in_out_acc[linspace(k)][2], in_out_acc[linspace(k + 1)][2])

\* a record with a value 0.0 outside the distribution was swept, and some
\* threshold does better than the baseline
C10_Witness ==
    /\ SweepDone
    /\ AllNonEmpty(swept_record)
    /\ NonNegative(swept_record)
    /\ 0 \in OutValues(swept_record)
    /\ fgreater(sorted_acc0[2], Half)

====
